---- MODULE Spec2Model ----
(***************************************************************************)
(* DataTalk-AI backend (src/app.py): the Flask endpoints /generate_query   *)
(* and /execute_query, the Gemini query generator and the auto-correction  *)
(* retry loop auto_correct_and_execute with its four database adapters.    *)
(*                                                                         *)
(* Texts that the code inspects (the SQL text, the model's reply) are      *)
(* sequences of one-character strings; messages that the code only         *)
(* forwards or concatenates are strings.  A missing JSON field, None and   *)
(* the empty value of the field's type are all falsy in Python and are     *)
(* modelled by the empty value ("" , {} , <<>>).                            *)
(***************************************************************************)
EXTENDS Integers, Sequences, FiniteSets, TLC

\* ------------------------------------------------------------------ bounds
\* Number of request slots (worker threads of the Flask server).
NumProcs == 2
\* Largest max_retries a direct caller of auto_correct_and_execute passes.
MaxRetriesBound == 3

\* Largest number of pieces a reply of the text model is put together from.
MaxChunks == 5

\* ------------------------------------------------------- program constants
\* def auto_correct_and_execute(..., max_retries: int = 3)
DefaultMaxRetries == 3

Procs == 1..NumProcs

\* ------------------------------------------------------------ text helpers
Whitespace == {" "}

RECURSIVE LStrip(_)
LStrip(s) ==
    IF Len(s) > 0 /\ Head(s) \in Whitespace THEN LStrip(Tail(s)) ELSE s

RECURSIVE RStrip(_)
RStrip(s) ==
    IF Len(s) > 0 /\ s[Len(s)] \in Whitespace
    THEN RStrip(SubSeq(s, 1, Len(s) - 1))
    ELSE s

\* str.strip()
Strip(s) == RStrip(LStrip(s))

\* str.startswith(prefix)
StartsWith(s, prefix) ==
    Len(s) >= Len(prefix) /\ SubSeq(s, 1, Len(prefix)) = prefix

\* str.replace(old, ''): every non-overlapping occurrence, left to right
RECURSIVE Remove(_, _)
Remove(s, old) ==
    IF Len(s) = 0 THEN <<>>
    ELSE IF StartsWith(s, old)
         THEN Remove(SubSeq(s, Len(old) + 1, Len(s)), old)
         ELSE <<Head(s)>> \o Remove(Tail(s), old)

\* The backquote character, written as a one-character token.
Backquote == "bq"

Fence == <<Backquote, Backquote, Backquote>>
FenceSql == Fence \o <<"s", "q", "l">>

\* A bug that cuts only the fence the text starts with.
CleanSql_LeadingFenceOnly(text) ==
    LET sql == Strip(text)
    IN  IF StartsWith(sql, FenceSql)
        THEN Strip(SubSeq(sql, Len(FenceSql) + 1, Len(sql)))
        ELSE IF StartsWith(sql, Fence)
             THEN Strip(SubSeq(sql, Len(Fence) + 1, Len(sql)))
             ELSE sql

\* generate_sql_with_gemini, lines 37-45: strip, then drop markdown fences
CleanSql(text) ==
    LET sql == Strip(text)
    IN  IF StartsWith(sql, FenceSql)
        THEN Strip(Remove(Remove(sql, FenceSql), Fence))
        ELSE IF StartsWith(sql, Fence)
             THEN Strip(Remove(sql, Fence))
             ELSE sql

\* ------------------------------------------------------------------ inputs
\* dbType values a client may send; "" is the falsy (missing) value and
\* "oracle" a kind the dispatch does not know.
DbTypes == {"sqlite", "mysql", "postgres", "mongo", "oracle", ""}

\* dbParams as the set of keys present; {} is the falsy (missing/empty) value.
DbParams == {{}, {"path"}, {"host"}, {"host", "database", "collection"}}

\* sql texts a client may send; <<>> is the falsy (missing/empty) value.
SqlTexts == {<<>>, <<"x">>, <<"y">>}

\* question / schema texts; "" is the falsy (missing/empty) value.
Questions == {"", "Q"}
Schemas == {"", "S"}

\* Texts the Gemini model may reply with.
ModelTexts ==
    { <<"x">>,
      FenceSql \o <<" ", "y", " ">> \o Fence,
      <<" ">> \o Fence \o <<"x">> \o Fence }

\* Errors the Gemini service may raise.
ServiceErrors == {"quota exceeded"}

\* max_retries values a direct caller may pass (negative behaves as 0).
RetryValues == (0 - 1)..MaxRetriesBound

\* Python None as a result value.
None == [py_none |-> TRUE]
IsNone(r) == "py_none" \in DOMAIN r

\* ------------------------------------------------------- backend adapters
\* What one adapter call did: ok / results / err as seen by the caller, and
\* conn, the state of the connection the call opened when it returned:
\* "none" (nothing was opened), "closed" (close() was called), "open"
\* (opened and left without close()).
Outcome(ok, results, err, conn) ==
    [ok |-> ok, results |-> results, err |-> err, conn |-> conn]

\* execute_sql_sqlite / execute_sql_mysql / execute_sql_postgres share one
\* shape: connect; cur.execute; fetchall or commit; conn.close(); return.
\* An exception of connect leaves nothing open; one of execute, fetchall or
\* commit propagates past conn.close().
SqlAdapterFailureConn == "open"

execute_sql_relational(connect_error, query_error) ==
    { Outcome(TRUE, "rows", "", "closed"),
      Outcome(FALSE, "", connect_error, "none"),
      Outcome(FALSE, "", query_error, SqlAdapterFailureConn) }

execute_sql_sqlite(db_path, sql) ==
    execute_sql_relational("unable to open database file", "no such table")

execute_sql_mysql(params, sql) ==
    execute_sql_relational("Can't connect to MySQL server", "Unknown column")

execute_sql_postgres(params, sql) ==
    execute_sql_relational("could not connect to server", "syntax error")

\* execute_sql_mongo: MongoClient(...); client[database][collection] before
\* the try block (a None name raises TypeError there, past client.close());
\* the query inside try/except/finally, where finally closes the client.
execute_sql_mongo(params, query_text, collection) ==
    IF "database" \notin params \/ collection = "None"
    THEN { Outcome(FALSE, "", "name must be an instance of str", "open") }
    ELSE { Outcome(TRUE, "docs", "", "closed"),
           Outcome(FALSE, "", "MongoDB query error: " \o "bad filter", "closed") }

\* dict.get(key) on the key set of a dict: the key's value or None
DictGet(params, key) == IF key \in params THEN key ELSE "None"

\* auto_correct_and_execute, lines 57-67: the dispatch on db_type.  A
\* sqlite request whose db_params has no 'path' raises KeyError('path')
\* inside the try block, before any adapter is called.
Dispatch(db_type, db_params, sql) ==
    CASE db_type = "sqlite" ->
            IF "path" \in db_params
            THEN execute_sql_sqlite("path", sql)
            ELSE { Outcome(FALSE, "", "'path'", "none") }
      [] db_type = "mysql" -> execute_sql_mysql(db_params, sql)
      [] db_type = "postgres" -> execute_sql_postgres(db_params, sql)
      [] db_type = "mongo" ->
            execute_sql_mongo(db_params, sql, DictGet(db_params, "collection"))
      [] OTHER -> { Outcome(FALSE, "", "Unsupported database type", "none") }

\* ------------------------------------------------------- query generator
\* str.upper() on the db_type values
Upper(db_type) ==
    CASE db_type = "sqlite" -> "SQLITE"
      [] db_type = "mysql" -> "MYSQL"
      [] db_type = "postgres" -> "POSTGRES"
      [] db_type = "mongo" -> "MONGO"
      [] db_type = "oracle" -> "ORACLE"
      [] OTHER -> db_type

\* build_prompt: the values the f-string embeds
build_prompt(question, schema_info, db_type) ==
    [kind |-> "generation", dialect |-> Upper(db_type),
     schema |-> schema_info, question |-> question]

\* A bug that puts the schema where the question belongs and the reverse.
correction_prompt_Swapped(error_msg, original_question, schema_info, sql) ==
    [kind |-> "correction", error |-> error_msg,
     question |-> schema_info, schema |-> original_question,
     failed_sql |-> sql]

\* auto_correct_and_execute, lines 81-90: the values the f-string embeds
correction_prompt(error_msg, original_question, schema_info, sql) ==
    [kind |-> "correction", error |-> error_msg,
     question |-> original_question, schema |-> schema_info,
     failed_sql |-> sql]

\* generate_sql_with_gemini: the cleaned reply, or the service's exception
\* wrapped as Exception("Gemini API error: ...")
generate_sql_with_gemini(prompt) ==
    { [ok |-> TRUE, sql |-> CleanSql(t), err |-> ""] : t \in ModelTexts }
    \cup
    { [ok |-> FALSE, sql |-> <<>>, err |-> "Gemini API error: " \o e] :
        e \in ServiceErrors }

\* ------------------------------------------- auto_correct_and_execute
\* for attempt in range(max_retries): is there a next iteration
InRange(attempt, max_retries) == attempt < max_retries

\* A bug that also asks for a correction after the last attempt.
NotLastAttempt_OffByOne(attempt, max_retries) == attempt < max_retries

\* line 79: if attempt < max_retries - 1   (not the last attempt)
NotLastAttempt(attempt, max_retries) == attempt < max_retries - 1

\* A bug that keeps the first attempt's message instead of overwriting it.
CaughtError_KeepFirst(previous_error_msg, e) ==
    IF previous_error_msg = "" THEN e ELSE previous_error_msg

\* line 77: error_msg = str(e) overwrites the message of an earlier attempt
CaughtError(previous_error_msg, e) == e

\* A bug that drops the correction and retries the failed text.
CorrectedSql_Dropped(sql, corrected_sql) == sql

\* line 93: sql = corrected_sql
CorrectedSql(sql, corrected_sql) == corrected_sql

\* A bug that reports the loop index instead of the attempt count.
SuccessResult_ZeroBased(results, sql, attempt) ==
    [success |-> TRUE, results |-> results, final_sql |-> sql,
     attempts |-> attempt]

\* lines 69-74
SuccessResult(results, sql, attempt) ==
    [success |-> TRUE, results |-> results, final_sql |-> sql,
     attempts |-> attempt + 1]

\* A bug that reports the correction error as the original error too.
CorrectionFailedResult_WrongOriginal(correction_error, error_msg, attempt) ==
    [success |-> FALSE,
     error |-> "Auto-correction failed: " \o correction_error,
     original_error |-> correction_error, attempts |-> attempt + 1]

\* lines 95-100
CorrectionFailedResult(correction_error, error_msg, attempt) ==
    [success |-> FALSE,
     error |-> "Auto-correction failed: " \o correction_error,
     original_error |-> error_msg, attempts |-> attempt + 1]

\* lines 103-108
ExhaustedResult(error_msg, sql, attempt) ==
    [success |-> FALSE, error |-> error_msg, final_sql |-> sql,
     attempts |-> attempt + 1]

\* ------------------------------------------------------------- endpoints
\* generate_query, line 274: if not question or not schema
GenerateFieldsMissing(question, schema) == question = "" \/ schema = ""

\* A bug that rejects only when all three fields are missing.
ExecuteFieldsMissing_OnlyIfAll(db_type, db_params, sql) ==
    db_type = "" /\ db_params = {} /\ sql = <<>>

\* execute_query, line 293: if not all([db_type, db_params, sql])
ExecuteFieldsMissing(db_type, db_params, sql) ==
    db_type = "" \/ db_params = {} \/ sql = <<>>

\* execute_query, lines 299-311: the JSON response built from the result
\* (subscripting a None result raises TypeError: Flask answers 500)
ExecuteResponse(r) ==
    IF IsNone(r)
    THEN [status |-> 500, body |-> [crash |-> "TypeError"]]
    ELSE IF r.success
         THEN [status |-> 200,
               body |-> [success |-> TRUE, results |-> r.results,
                         final_sql |-> r.final_sql, attempts |-> r.attempts]]
         ELSE [status |-> 500,
               body |-> [success |-> FALSE, error |-> r.error,
                         attempts |-> IF "attempts" \in DOMAIN r
                                      THEN r.attempts ELSE 1]]

\* ------------------------------------------------------------------- state
VARIABLES
    live,       \* request slots that serve requests in this run
    pc,         \* per slot: "idle", "generating", "loop", "correcting",
                \*           "returned", "done"
    call,       \* per slot: the entry point and the arguments of the call
    sql,        \* per slot: local sql of auto_correct_and_execute
    attempt,    \* per slot: loop variable of auto_correct_and_execute
    error_msg,  \* per slot: local error_msg (last caught execution error)
    result,     \* per slot: value returned by auto_correct_and_execute
    response,   \* per slot: HTTP response of the endpoint
    trace       \* per slot: external calls made for the current request

vars == <<live, pc, call, sql, attempt, error_msg, result, response, trace>>

NoCall ==
    [entry |-> "none", db_type |-> "", db_params |-> {}, sql |-> <<>>,
     schema |-> "", question |-> "", max_retries |-> 0]
NoResult == [pending |-> TRUE]
NoResponse == [status |-> 0]

InitSlots ==
    /\ pc = [p \in Procs |-> "idle"]
    /\ call = [p \in Procs |-> NoCall]
    /\ sql = [p \in Procs |-> <<>>]
    /\ attempt = [p \in Procs |-> 0]
    /\ error_msg = [p \in Procs |-> ""]
    /\ result = [p \in Procs |-> NoResult]
    /\ response = [p \in Procs |-> NoResponse]
    /\ trace = [p \in Procs |-> <<>>]

\* One request at a time.
Init == live = {1} /\ InitSlots

ExecEvent(n, text, o) ==
    [op |-> "exec", attempt |-> n, sql |-> text, ok |-> o.ok,
     err |-> o.err, conn |-> o.conn]
GenEvent(n, prompt, g) ==
    [op |-> "gen", attempt |-> n, prompt |-> prompt, ok |-> g.ok,
     sql |-> g.sql, err |-> g.err]

\* A bug that keeps the query text in one module-level variable that every
\* request overwrites on entry.
EnterCycle_SharedSql(p, entry, db_type, db_params, text, schema, question, max_retries) ==
    /\ call' = [call EXCEPT ![p] =
                  [entry |-> entry, db_type |-> db_type,
                   db_params |-> db_params, sql |-> text, schema |-> schema,
                   question |-> question, max_retries |-> max_retries]]
    /\ sql' = [q \in Procs |-> text]
    /\ attempt' = [attempt EXCEPT ![p] = 0]
    /\ pc' = [pc EXCEPT ![p] = "loop"]
    /\ UNCHANGED <<live, error_msg, result, response, trace>>

\* Entering auto_correct_and_execute: locals bound, attempt = first of range
EnterCycle(p, entry, db_type, db_params, text, schema, question, max_retries) ==
    /\ call' = [call EXCEPT ![p] =
                  [entry |-> entry, db_type |-> db_type,
                   db_params |-> db_params, sql |-> text, schema |-> schema,
                   question |-> question, max_retries |-> max_retries]]
    /\ sql' = [sql EXCEPT ![p] = text]
    /\ attempt' = [attempt EXCEPT ![p] = 0]
    /\ pc' = [pc EXCEPT ![p] = "loop"]
    /\ UNCHANGED <<live, error_msg, result, response, trace>>

\* POST /execute_query, lines 285-297: 400 on a missing field, otherwise
\* auto_correct_and_execute(db_type, db_params, sql, schema, question)
PostExecuteQuery(p) ==
    /\ p \in live /\ pc[p] = "idle"
    /\ \E db_type \in DbTypes, db_params \in DbParams, text \in SqlTexts,
          schema \in Schemas, question \in Questions :
          IF ExecuteFieldsMissing(db_type, db_params, text)
          THEN /\ response' = [response EXCEPT ![p] =
                    [status |-> 400,
                     body |-> [error |-> "dbType, dbParams, and sql required"]]]
               /\ call' = [call EXCEPT ![p] =
                    [entry |-> "execute_query", db_type |-> db_type,
                     db_params |-> db_params, sql |-> text, schema |-> schema,
                     question |-> question, max_retries |-> DefaultMaxRetries]]
               /\ pc' = [pc EXCEPT ![p] = "done"]
               /\ UNCHANGED <<live, sql, attempt, error_msg, result, trace>>
          ELSE EnterCycle(p, "execute_query", db_type, db_params, text,
                          schema, question, DefaultMaxRetries)

\* auto_correct_and_execute called with a max_retries of the caller's choice
CallAutoCorrect(p) ==
    /\ p \in live /\ pc[p] = "idle"
    /\ \E db_type \in DbTypes \ {""}, db_params \in DbParams \ {{}},
          text \in SqlTexts \ {<<>>}, max_retries \in RetryValues :
          EnterCycle(p, "direct", db_type, db_params, text, "S", "Q",
                     max_retries)

\* One iteration of the for loop up to the execution's outcome, lines 54-79
\* and 101-108: a success returns, a failure on the last attempt returns,
\* any other failure goes on to the correction.
ExecuteAttempt(p) ==
    /\ pc[p] = "loop"
    /\ InRange(attempt[p], call[p].max_retries)
    /\ \E o \in Dispatch(call[p].db_type, call[p].db_params, sql[p]) :
          /\ trace' = [trace EXCEPT ![p] =
                          Append(@, ExecEvent(attempt[p] + 1, sql[p], o))]
          /\ IF o.ok
             THEN /\ result' = [result EXCEPT ![p] =
                                  SuccessResult(o.results, sql[p], attempt[p])]
                  /\ pc' = [pc EXCEPT ![p] = "returned"]
                  /\ UNCHANGED error_msg
             ELSE /\ error_msg' = [error_msg EXCEPT ![p] = CaughtError(@, o.err)]
                  /\ IF NotLastAttempt(attempt[p], call[p].max_retries)
                     THEN /\ pc' = [pc EXCEPT ![p] = "correcting"]
                          /\ UNCHANGED result
                     ELSE /\ result' = [result EXCEPT ![p] =
                                  ExhaustedResult(error_msg'[p], sql[p],
                                                  attempt[p])]
                          /\ pc' = [pc EXCEPT ![p] = "returned"]
    /\ UNCHANGED <<live, call, sql, attempt, response>>

\* range(max_retries) is exhausted without a return: the function falls
\* off its end and returns None
LoopExit(p) ==
    /\ pc[p] = "loop"
    /\ ~InRange(attempt[p], call[p].max_retries)
    /\ result' = [result EXCEPT ![p] = None]
    /\ pc' = [pc EXCEPT ![p] = "returned"]
    /\ UNCHANGED <<live, call, sql, attempt, error_msg, response, trace>>

\* Lines 80-100: the correction prompt, the generator call, and either the
\* replaced sql and the next iteration or the immediate failure return
Correct(p) ==
    /\ pc[p] = "correcting"
    /\ LET prompt == correction_prompt(error_msg[p], call[p].question,
                                       call[p].schema, sql[p])
       IN \E g \in generate_sql_with_gemini(prompt) :
            /\ trace' = [trace EXCEPT ![p] =
                            Append(@, GenEvent(attempt[p] + 1, prompt, g))]
            /\ IF g.ok
               THEN /\ sql' = [sql EXCEPT ![p] = CorrectedSql(@, g.sql)]
                    /\ attempt' = [attempt EXCEPT ![p] = @ + 1]
                    /\ pc' = [pc EXCEPT ![p] = "loop"]
                    /\ UNCHANGED result
               ELSE /\ result' = [result EXCEPT ![p] =
                          CorrectionFailedResult(g.err, error_msg[p], attempt[p])]
                    /\ pc' = [pc EXCEPT ![p] = "returned"]
                    /\ UNCHANGED <<sql, attempt>>
    /\ UNCHANGED <<live, call, error_msg, response>>

\* execute_query, lines 299-311: the response built from the result
RespondExecuteQuery(p) ==
    /\ pc[p] = "returned" /\ call[p].entry = "execute_query"
    /\ response' = [response EXCEPT ![p] = ExecuteResponse(result[p])]
    /\ pc' = [pc EXCEPT ![p] = "done"]
    /\ UNCHANGED <<live, call, sql, attempt, error_msg, result, trace>>

\* The direct caller receives the returned value
ReturnToCaller(p) ==
    /\ pc[p] = "returned" /\ call[p].entry = "direct"
    /\ pc' = [pc EXCEPT ![p] = "done"]
    /\ UNCHANGED <<live, call, sql, attempt, error_msg, result, response, trace>>

\* POST /generate_query, lines 268-277: 400 on a missing field, otherwise
\* the prompt is built and the generator is called
PostGenerateQuery(p) ==
    /\ p \in live /\ pc[p] = "idle"
    /\ \E question \in Questions, schema \in Schemas,
          db_type \in {"sqlite", "mongo"} :
          /\ call' = [call EXCEPT ![p] =
                        [entry |-> "generate_query", db_type |-> db_type,
                         db_params |-> {}, sql |-> <<>>, schema |-> schema,
                         question |-> question, max_retries |-> 0]]
          /\ IF GenerateFieldsMissing(question, schema)
             THEN /\ response' = [response EXCEPT ![p] =
                        [status |-> 400,
                         body |-> [error |-> "Provide question and schema"]]]
                  /\ pc' = [pc EXCEPT ![p] = "done"]
             ELSE /\ pc' = [pc EXCEPT ![p] = "generating"]
                  /\ UNCHANGED response
    /\ UNCHANGED <<live, sql, attempt, error_msg, result, trace>>

\* generate_query, lines 277-282: the generator's reply or its exception
GenerateReply(p) ==
    /\ pc[p] = "generating"
    /\ LET prompt == build_prompt(call[p].question, call[p].schema,
                                  call[p].db_type)
       IN \E g \in generate_sql_with_gemini(prompt) :
            /\ trace' = [trace EXCEPT ![p] = Append(@, GenEvent(0, prompt, g))]
            /\ response' = [response EXCEPT ![p] =
                  IF g.ok
                  THEN [status |-> 200, body |-> [sql |-> g.sql]]
                  ELSE [status |-> 500, body |-> [error |-> g.err]]]
    /\ pc' = [pc EXCEPT ![p] = "done"]
    /\ UNCHANGED <<live, call, sql, attempt, error_msg, result>>

\* The request is over; the slot serves the next one with fresh locals
NextRequest(p) ==
    /\ pc[p] = "done"
    /\ pc' = [pc EXCEPT ![p] = "idle"]
    /\ call' = [call EXCEPT ![p] = NoCall]
    /\ sql' = [sql EXCEPT ![p] = <<>>]
    /\ attempt' = [attempt EXCEPT ![p] = 0]
    /\ error_msg' = [error_msg EXCEPT ![p] = ""]
    /\ result' = [result EXCEPT ![p] = NoResult]
    /\ response' = [response EXCEPT ![p] = NoResponse]
    /\ trace' = [trace EXCEPT ![p] = <<>>]
    /\ UNCHANGED live

Next ==
    \E p \in Procs :
        \/ PostExecuteQuery(p)
        \/ CallAutoCorrect(p)
        \/ ExecuteAttempt(p)
        \/ LoopExit(p)
        \/ Correct(p)
        \/ RespondExecuteQuery(p)
        \/ ReturnToCaller(p)
        \/ PostGenerateQuery(p)
        \/ GenerateReply(p)
        \/ NextRequest(p)

Spec == Init /\ [][Next]_vars

\* ------------------------------------------------------ reading the trace
IsExec(e) == e.op = "exec"
IsGen(e) == e.op = "gen"

\* The Backend Adapter / Query Generator invocations of slot p's request
Execs(p) == SelectSeq(trace[p], IsExec)
Gens(p) == SelectSeq(trace[p], IsGen)

\* Slot p runs or has run auto_correct_and_execute
InCycle(p) ==
    /\ call[p].entry \in {"execute_query", "direct"}
    /\ pc[p] \in {"loop", "correcting", "returned"} \/ "pending" \notin DOMAIN result[p]

\* auto_correct_and_execute has returned in slot p
Terminal(p) == InCycle(p) /\ pc[p] \in {"returned", "done"}

\* /execute_query has answered in slot p after running a cycle
Answered(p) ==
    Terminal(p) /\ call[p].entry = "execute_query" /\ pc[p] = "done"

AllFailed(events) == \A i \in 1..Len(events) : ~events[i].ok
AllOk(events) == \A i \in 1..Len(events) : events[i].ok

\* ------------------------------------------------------------------ claims

\* C1: a correction cycle (one or more attempts) whose execution failed on
\* every attempt up to the bound, every correction having been generated,
\* ends Failed: success = false, attempts = max_retries, and error is the
\* message of the last execution; /execute_query reports the same with
\* status 500.
C1_ExhaustedReportsLastError ==
    \A p \in Procs :
        ( /\ Terminal(p)
          /\ Len(Execs(p)) >= 1
          /\ Len(Execs(p)) = call[p].max_retries
          /\ AllFailed(Execs(p))
          /\ AllOk(Gens(p)) )
        => /\ ~IsNone(result[p])
           /\ result[p].success = FALSE
           /\ result[p].attempts = call[p].max_retries
           /\ result[p].error = Execs(p)[Len(Execs(p))].err
           /\ Answered(p) =>
                /\ response[p].status = 500
                /\ response[p].body.success = FALSE
                /\ response[p].body.attempts = call[p].max_retries
                /\ response[p].body.error = Execs(p)[Len(Execs(p))].err

\* C1 witness: /execute_query answered after three failed executions whose
\* first and last error messages differ.
C1_Witness ==
    \E p \in Procs :
        /\ Answered(p)
        /\ Len(Execs(p)) = DefaultMaxRetries
        /\ AllFailed(Execs(p))
        /\ AllOk(Gens(p))
        /\ Execs(p)[1].err # Execs(p)[Len(Execs(p))].err

\* C2: a cycle whose first execution succeeds returns success = true,
\* attempts = 1 and final_sql equal to the input sql, and the Query
\* Generator was not invoked.
C2_FirstAttemptSuccess ==
    \A p \in Procs :
        ( /\ Terminal(p)
          /\ Len(Execs(p)) >= 1
          /\ Execs(p)[1].ok )
        => /\ ~IsNone(result[p])
           /\ result[p].success = TRUE
           /\ result[p].attempts = 1
           /\ result[p].final_sql = call[p].sql
           /\ Len(Gens(p)) = 0
           /\ Len(Execs(p)) = 1
           /\ Answered(p) =>
                /\ response[p].status = 200
                /\ response[p].body.attempts = 1
                /\ response[p].body.final_sql = call[p].sql

\* C2 witness: /execute_query answered a request whose first execution
\* succeeded.
C2_Witness ==
    \E p \in Procs : Answered(p) /\ Execs(p)[1].ok

\* The cycle of slot p has returned after exactly one failed execution
\* followed by a successful one.
FailedOnceThenSucceeded(p) ==
    /\ Terminal(p)
    /\ Len(Execs(p)) = 2
    /\ ~Execs(p)[1].ok
    /\ Execs(p)[2].ok

\* C3 (as claimed): a cycle whose execution fails exactly once and then
\* succeeds has attempts = 2 and a final_sql that differs from the
\* original sql, whatever text the Query Generator returned.
C3_Original_FinalSqlDiffers ==
    \A p \in Procs :
        FailedOnceThenSucceeded(p)
        => /\ result[p].attempts = 2
           /\ result[p].final_sql # call[p].sql

\* C3 (amended): a cycle whose execution fails exactly once and then
\* succeeds has attempts = 2 and a final_sql equal to the text the Query
\* Generator returned for the correction; it differs from the original sql
\* exactly when that text does.
C3_FinalSqlIsGeneratedText ==
    \A p \in Procs :
        FailedOnceThenSucceeded(p)
        => /\ result[p].success = TRUE
           /\ result[p].attempts = 2
           /\ Len(Gens(p)) = 1
           /\ result[p].final_sql = Gens(p)[1].sql
           /\ Execs(p)[2].sql = Gens(p)[1].sql
           /\ Answered(p) => response[p].body.final_sql = Gens(p)[1].sql

\* C3 witness: /execute_query answered after one failure and one success,
\* the generated text being different from the original sql.
C3_Witness ==
    \E p \in Procs :
        /\ FailedOnceThenSucceeded(p)
        /\ Answered(p)
        /\ Gens(p)[1].sql # call[p].sql

\* The last Query Generator call of slot p's cycle failed.
CorrectionFailed(p) ==
    /\ InCycle(p)
    /\ Len(Gens(p)) >= 1
    /\ ~Gens(p)[Len(Gens(p))].ok

\* What a generation failure at attempt n must leave behind, given the
\* prefix the error text starts with: the cycle has returned Failed with
\* error = prefix + generation error, the execution error of attempt n and
\* attempts = n < max_retries, and the failed generator call is the last
\* external call of the cycle.
FailsAtOnceWith(p, prefix) ==
    LET g == Gens(p)[Len(Gens(p))]
        n == g.attempt
    IN  /\ pc[p] \in {"returned", "done"}
        /\ ~IsNone(result[p])
        /\ result[p].success = FALSE
        /\ result[p].error = prefix \o g.err
        /\ result[p].original_error = Execs(p)[n].err
        /\ result[p].attempts = n
        /\ n < call[p].max_retries
        /\ Len(Execs(p)) = n
        /\ Len(Gens(p)) = n
        /\ trace[p][Len(trace[p])] = g

\* C4 (as claimed): a generation failure during the correction at attempt
\* n < max_retries ends the cycle at once with error =
\* "auto-correction failed: " + generation error, the original execution
\* error and attempts = n, with no retry and no further call.
C4_Original_LowercasePrefix ==
    \A p \in Procs :
        CorrectionFailed(p) => FailsAtOnceWith(p, "auto-correction failed: ")

\* C4 (amended): the same, the error text being
\* "Auto-correction failed: " + generation error.
C4_GenerationFailureIsFatal ==
    \A p \in Procs :
        CorrectionFailed(p) => FailsAtOnceWith(p, "Auto-correction failed: ")

\* C4 witness: a cycle that returned after the generator failed at its
\* second attempt.
C4_Witness ==
    \E p \in Procs :
        /\ CorrectionFailed(p)
        /\ Terminal(p)
        /\ Gens(p)[Len(Gens(p))].attempt = 2

\* C5: every failure response of /execute_query carries the attempts made
\* and the most recent error text, and after a generation failure during
\* correction it carries the original execution error together with the
\* correction error.
C5_FailureResponseSurfacesBothErrors ==
    \A p \in Procs :
        (Answered(p) /\ response[p].status = 500)
        => /\ "attempts" \in DOMAIN response[p].body
           /\ "error" \in DOMAIN response[p].body
           /\ CorrectionFailed(p) =>
                /\ response[p].body.error = result[p].error
                /\ "original_error" \in DOMAIN response[p].body

\* C6: for every max_retries the caller passes and every behaviour of the
\* backend and the generator, auto_correct_and_execute returns a result
\* record carrying a success flag and an attempts count (Succeeded or
\* Failed), having stopped on the first success or at the attempt bound.
C6_AlwaysReturnsResultRecord ==
    \A p \in Procs :
        Terminal(p)
        => /\ ~IsNone(result[p])
           /\ {"success", "attempts"} \subseteq DOMAIN result[p]

\* C7: a sqlite request whose connection parameters lack 'path' is a
\* precondition failure, not a retryable error: the cycle never invokes the
\* Query Generator for it and makes no further attempt because of it.
C7_MissingParamNotRetried ==
    \A p \in Procs :
        ( /\ InCycle(p)
          /\ call[p].db_type = "sqlite"
          /\ "path" \notin call[p].db_params )
        => /\ Len(Gens(p)) = 0
           /\ Len(Execs(p)) <= 1

\* C8: every Backend Adapter call closes the connection it opened before it
\* returns, on success and on failure, so no attempt of a cycle leaves a
\* connection open.
C8_NoConnectionLeftOpen ==
    \A p \in Procs :
        \A i \in 1..Len(Execs(p)) : Execs(p)[i].conn # "open"

\* C9: a request missing a required field is answered 400 at once, before
\* any external call: /generate_query without question or schema calls no
\* generator; /execute_query without dbType, dbParams or sql executes
\* nothing and starts no correction cycle.
C9_MissingFieldRejectedBeforeAnyCall ==
    \A p \in Procs :
        /\ ( /\ call[p].entry = "generate_query"
             /\ call[p].question = "" \/ call[p].schema = "" )
           => /\ pc[p] = "done"
              /\ response[p].status = 400
              /\ trace[p] = <<>>
        /\ ( /\ call[p].entry = "execute_query"
             /\ \/ call[p].db_type = ""
                \/ call[p].db_params = {}
                \/ call[p].sql = <<>> )
           => /\ pc[p] = "done"
              /\ response[p].status = 400
              /\ trace[p] = <<>>
              /\ ~InCycle(p)

\* C9 witness: /execute_query has rejected with 400 a request that lacks
\* only its sql field.
C9_WitnessExecute ==
    \E p \in Procs :
        /\ call[p].entry = "execute_query"
        /\ call[p].db_type = "sqlite"
        /\ call[p].db_params = {"path"}
        /\ call[p].sql = <<>>
        /\ pc[p] = "done"
        /\ response[p].status = 400

\* C10: within one correction cycle (one or more attempts) the Backend
\* Adapter is invoked at most max_retries times (3 through
\* /execute_query), the Query Generator at most max_retries - 1 times, and
\* the calls are strictly sequential: the first call is the execution of
\* attempt 1, and the execution of attempt n+1 directly follows the
\* successful correction of attempt n, which directly follows the failed
\* execution of attempt n.
C10_BoundedAndSequential ==
    \A p \in Procs :
        (InCycle(p) /\ Len(trace[p]) >= 1)
        => /\ Len(Execs(p)) <= call[p].max_retries
           /\ Len(Gens(p)) <= call[p].max_retries - 1
           /\ call[p].entry = "execute_query" =>
                /\ Len(Execs(p)) <= 3
                /\ Len(Gens(p)) <= 2
           /\ IsExec(trace[p][1]) /\ trace[p][1].attempt = 1
           /\ \A i \in 2..Len(trace[p]) :
                LET e == trace[p][i]
                    d == trace[p][i - 1]
                IN  /\ IsExec(e) =>
                          /\ IsGen(d) /\ d.ok
                          /\ d.attempt = e.attempt - 1
                          /\ e.sql = d.sql
                    /\ IsGen(e) =>
                          /\ IsExec(d) /\ ~d.ok
                          /\ d.attempt = e.attempt

\* C10 witness: a cycle through /execute_query that made three Backend
\* Adapter calls and two Query Generator calls.
C10_Witness ==
    \E p \in Procs :
        /\ Answered(p)
        /\ Len(Execs(p)) = 3
        /\ Len(Gens(p)) = 2

\* ------------------------------------------------- two concurrent requests
\* Two requests are served at the same time (Flask's threaded server), each
\* by its own activation of execute_query and auto_correct_and_execute.
InitConc == live = {1, 2} /\ InitSlots

\* sql texts of the concurrent requests
ConcSqlTexts == {<<"x">>, <<"y">>}

\* POST /execute_query with every required field present, lines 285-297
PostValidExecuteQuery(p) ==
    /\ p \in live /\ pc[p] = "idle"
    /\ \E text \in ConcSqlTexts :
          /\ ~ExecuteFieldsMissing("sqlite", {"path"}, text)
          /\ EnterCycle(p, "execute_query", "sqlite", {"path"}, text,
                        "S", "Q", DefaultMaxRetries)

NextConc ==
    \E p \in Procs :
        \/ PostValidExecuteQuery(p)
        \/ ExecuteAttempt(p)
        \/ Correct(p)
        \/ RespondExecuteQuery(p)
        \/ NextRequest(p)

SpecConc == InitConc /\ [][NextConc]_vars

\* The request-scoped state of slot p
Locals(p) ==
    <<pc[p], call[p], sql[p], attempt[p], error_msg[p], result[p],
      response[p], trace[p]>>

\* Some step of slot p's own request
OwnStep(p) ==
    \/ PostValidExecuteQuery(p)
    \/ ExecuteAttempt(p)
    \/ Correct(p)
    \/ RespondExecuteQuery(p)
    \/ NextRequest(p)

\* Two slots that were given the same inputs and whose adapter and
\* generator calls received the same responses hold the same attempt
\* counter, query text, caught error and result.
SameHistorySameState ==
    \A p \in live, q \in live :
        ( /\ InCycle(p) /\ InCycle(q)
          /\ call[p] = call[q]
          /\ trace[p] = trace[q] )
        => /\ attempt[p] = attempt[q]
           /\ sql[p] = sql[q]
           /\ error_msg[p] = error_msg[q]
           /\ result[p] = result[q]

\* C11: correction cycles of concurrent requests share no mutable state.
\* Under every interleaving of two cycles, a slot's request-scoped state
\* changes only in a step of its own request, and its attempt counter,
\* query text and result are determined by its own inputs and the
\* responses its own calls received.
C11_CyclesAreIndependent ==
    /\ []SameHistorySameState
    /\ [][\A p \in Procs : Locals(p)' # Locals(p) => OwnStep(p)]_vars

\* C11 witness: two requests that started from different query texts are
\* both past a first failed execution and a successful correction, one
\* already answered after a second execution, the other still in its loop.
C11_Witness ==
    /\ call[1].sql # call[2].sql
    /\ Len(trace[1]) = 3 /\ Answered(1)
    /\ Len(trace[2]) = 2 /\ pc[2] = "loop"
    /\ sql[1] # sql[2]

\* ------------------------------------------- formatting-marker stripping
\* Pieces the replies of the text model are put together from: fences with
\* and without the language tag, single backquotes, the tag alone,
\* whitespace and other text.
Chunks ==
    { FenceSql, Fence, <<Backquote>>, <<"s", "q", "l">>, <<" ">>, <<"x">> }

RECURSIVE Flatten(_)
Flatten(chunks) ==
    IF Len(chunks) = 0 THEN <<>> ELSE Head(chunks) \o Flatten(Tail(chunks))

\* response.text: every text of up to MaxChunks pieces
ReplyTexts ==
    { Flatten(c) : c \in UNION { [1..n -> Chunks] : n \in 0..MaxChunks } }

\* Slot 1 holds a reply of the text model in sql; nothing else is going on.
InitStrip ==
    /\ live = {}
    /\ pc = [p \in Procs |-> IF p = 1 THEN "stripping" ELSE "idle"]
    /\ \E t \in ReplyTexts :
          sql = [p \in Procs |-> IF p = 1 THEN t ELSE <<>>]
    /\ call = [p \in Procs |-> NoCall]
    /\ attempt = [p \in Procs |-> 0]
    /\ error_msg = [p \in Procs |-> ""]
    /\ result = [p \in Procs |-> NoResult]
    /\ response = [p \in Procs |-> NoResponse]
    /\ trace = [p \in Procs |-> <<>>]

\* generate_sql_with_gemini, lines 37-45, applied to the text held in sql:
\* once to the reply, once more to its own output.  trace keeps the text
\* each application started from, attempt counts the applications.
StripReply ==
    /\ pc[1] = "stripping"
    /\ attempt[1] < 2
    /\ trace' = [trace EXCEPT ![1] = Append(@, sql[1])]
    /\ sql' = [sql EXCEPT ![1] = CleanSql(@)]
    /\ attempt' = [attempt EXCEPT ![1] = @ + 1]
    /\ UNCHANGED <<live, pc, call, error_msg, result, response>>

NextStrip == StripReply

SpecStrip == InitStrip /\ [][NextStrip]_vars

\* C12: formatting-marker stripping is idempotent.  For every reply of the
\* text model, stripping the already-stripped text returns it unchanged,
\* and a stripped text never begins with a triple-backquote fence.
C12_StrippingIsIdempotent ==
    /\ attempt[1] >= 1 => ~StartsWith(sql[1], Fence)
    /\ attempt[1] = 2 => sql[1] = trace[1][2]

\* C12 witness: a reply that began with a tagged fence and ended with a
\* closing fence has been stripped twice, the first stripping having
\* changed it into a non-empty text.
C12_Witness ==
    /\ attempt[1] = 2
    /\ LET reply == Strip(trace[1][1])
       IN  /\ StartsWith(reply, FenceSql)
           /\ Len(reply) > Len(FenceSql) + Len(Fence)
           /\ SubSeq(reply, Len(reply) - 2, Len(reply)) = Fence
    /\ trace[1][2] # trace[1][1]
    /\ Len(trace[1][2]) > 0

\* C13: at every failed attempt n < max_retries the correction prompt
\* embeds the error message of attempt n's execution, the original
\* question, the schema text and the query text executed at attempt n;
\* after a successful generation the current query text is exactly the
\* generated text, so attempt n+1 executes, and a success reports as
\* final_sql, the generator's most recent output.
C13_PromptAndReplacement ==
    \A p \in Procs :
        (InCycle(p) /\ Len(Gens(p)) >= 1)
        => /\ \A i \in 2..Len(trace[p]) :
                LET e == trace[p][i]
                    d == trace[p][i - 1]
                IN  /\ IsGen(e) =>
                          /\ e.prompt.kind = "correction"
                          /\ e.prompt.error = d.err
                          /\ e.prompt.failed_sql = d.sql
                          /\ e.prompt.question = call[p].question
                          /\ e.prompt.schema = call[p].schema
                          /\ e.attempt < call[p].max_retries
                    /\ IsExec(e) => e.sql = d.sql
           /\ LET last == Gens(p)[Len(Gens(p))]
              IN  /\ (last.ok /\ pc[p] \in {"loop", "correcting"}) =>
                        sql[p] = last.sql
                  /\ (Terminal(p) /\ ~IsNone(result[p]) /\ result[p].success) =>
                        result[p].final_sql = last.sql
                  /\ (Answered(p) /\ response[p].status = 200) =>
                        response[p].body.final_sql = last.sql

\* C13 witness: /execute_query answered a success at the third attempt;
\* the second correction prompt carried the first correction's text, not
\* the initial query, and the reported final_sql is the second
\* correction's text, different from both.
C13_Witness ==
    \E p \in Procs :
        /\ Answered(p)
        /\ response[p].status = 200
        /\ Len(Gens(p)) = 2
        /\ Gens(p)[2].prompt.failed_sql = Gens(p)[1].sql
        /\ Gens(p)[1].sql # call[p].sql
        /\ Gens(p)[2].sql # Gens(p)[1].sql
        /\ response[p].body.final_sql = Gens(p)[2].sql

====
